---------------------------- MODULE Spec2Model ----------------------------
(***************************************************************************)
(* A model of DynamicPlot (graph.py): the construction sequence of         *)
(* __init__ (load_data, assign_random_colors, compute_max_label_length,    *)
(* setup_plot, plot_data, create_annotation_box, connect_events) followed  *)
(* by the pointer-move handler on_mouse_move.                              *)
(*                                                                         *)
(* Text is a sequence of one-character strings.  A table cell is a record  *)
(* [k, v]: k = "num" (text that parses as the number v), "blank" (an empty *)
(* field, read as missing), "text" (non-numeric text) or "nan" (missing    *)
(* after coercion).  Y limits are kept in tenths (value * 10) so that the  *)
(* factors 0.9 and 1.1 stay exact.                                         *)
(***************************************************************************)
EXTENDS Integers, Sequences, FiniteSets

VARIABLES
    csv_file,            \* the table pd.read_csv finds at self.csv_file
    columns_to_display,  \* self.columns_to_display
    log_scale,           \* self.log_scale
    pc,                  \* the next step of __init__, "ready" or "failed"
    err,                 \* the exception that aborted __init__
    df,                  \* self.df
    color_map,           \* self.color_map
    max_label_length,    \* self.max_label_length
    axes,                \* self.ax: yscale, linthresh, ylim, xlim
    uses_symlog,         \* self.uses_symlog
    rows,                \* the label text of each row of the panel
    value_texts,         \* self.value_texts: the text of each value slot
    box_ab,              \* self.box_ab: [exists, visible]
    vertical_line,       \* self.vertical_line: [exists, visible, xdata]
    redraw               \* a redraw was requested (canvas.draw_idle)

vars == <<csv_file, columns_to_display, log_scale, pc, err, df, color_map,
          max_label_length, axes, uses_symlog, rows, value_texts, box_ab,
          vertical_line, redraw>>

config == <<csv_file, columns_to_display, log_scale>>

-----------------------------------------------------------------------------
(* Bounds of the model.                                                    *)

MaxRows == 2        \* rows of a table in the loading specification
MaxScaleRows == 2   \* rows of a table in the scale specification
MaxVal == 2         \* the magnitude of the series values in the scale specification
MaxLabelLen == 3    \* length of a generated series name
MaxSamples == 3     \* rows of a table in the pointer specification
MaxTime == 2        \* sample times range over 0 .. MaxTime

-----------------------------------------------------------------------------
(* Cells and text.                                                         *)

Num(n) == [k |-> "num", v |-> n]
Blank == [k |-> "blank", v |-> 0]
TextCell == [k |-> "text", v |-> 0]
NaN == [k |-> "nan", v |-> 0]

TimeCol == <<"T", "i", "m", "e", "(", "s", ")">>
ColA == <<"P", "e", "d", "a", "l", "(", "%", ")">>
ColB == <<"E", "n", "g", " ", "s", "p", "d", "(", "r", "p", "m", ")">>
ShortCol == <<"b">>
ColX == <<"X">>

Range(s) == {s[i] : i \in DOMAIN s}

SeqsUpTo(S, n) == UNION {[1..m -> S] : m \in 0..n}

NoErr == [at |-> "", type |-> "", msg |-> "", names |-> <<>>]

Raise(at, type, msg, names) ==
    [at |-> at, type |-> type, msg |-> msg, names |-> names]

NoAxes ==
    [exists |-> FALSE, yscale |-> "", linthresh |-> 0, ylim |-> <<>>, xlim |-> <<>>]

-----------------------------------------------------------------------------
(* load_data                                                               *)

\* pd.to_numeric(..., errors='coerce') on one cell
ToNumeric(c) == IF c.k = "num" THEN c ELSE NaN

\* pandas' isna on one cell
IsNA(c) == c.k \in {"nan", "blank"}

\* the frame read_csv returns: the rows labelled 0, 1, ... (a RangeIndex)
ReadCsv(file) ==
    [columns |-> file.columns,
     rows |-> [i \in DOMAIN file.rows |->
                  [label |-> i - 1, cells |-> file.rows[i]]]]

\* a list built back to front
RECURSIVE MissingCols_Reversed(_, _)
MissingCols_Reversed(cols, present) ==
    IF cols = <<>> THEN <<>>
    ELSE IF Head(cols) \notin present
         THEN MissingCols_Reversed(Tail(cols), present) \o <<Head(cols)>>
         ELSE MissingCols_Reversed(Tail(cols), present)

\* missing_cols = [col for col in self.columns_to_display
\*                 if col not in self.df.columns]
RECURSIVE MissingCols(_, _)
MissingCols(cols, present) ==
    IF cols = <<>> THEN <<>>
    ELSE IF Head(cols) \notin present
         THEN <<Head(cols)>> \o MissingCols(Tail(cols), present)
         ELSE MissingCols(Tail(cols), present)

\* self.df[col] = pd.to_numeric(self.df[col], errors='coerce') for every col
\* of required
CoerceColumns(frame, required) ==
    [frame EXCEPT !.rows =
        [i \in DOMAIN frame.rows |->
            [frame.rows[i] EXCEPT !.cells =
                [c \in frame.columns |->
                    IF c \in required THEN ToNumeric(frame.rows[i].cells[c])
                    ELSE frame.rows[i].cells[c]]]]]

RECURSIVE DropRows(_, _)
DropRows(rs, subset) ==
    IF rs = <<>> THEN <<>>
    ELSE IF \E c \in subset : IsNA(Head(rs).cells[c])
         THEN DropRows(Tail(rs), subset)
         ELSE <<Head(rs)>> \o DropRows(Tail(rs), subset)

\* a dropna that looks at the time column alone
DropNA_TimeOnly(frame, subset) ==
    [frame EXCEPT !.rows = DropRows(frame.rows, {TimeCol})]

\* df.dropna(subset=required_cols, inplace=True)
DropNA(frame, subset) == [frame EXCEPT !.rows = DropRows(frame.rows, subset)]

RequiredCols == Range(columns_to_display) \cup {TimeCol}

LoadData ==
    /\ pc = "load_data"
    /\ IF csv_file.status = "notfound"
       THEN /\ err' = Raise("load_data", "FileNotFoundError", "does not exist", <<>>)
            /\ pc' = "failed"
            /\ df' = df
       ELSE IF csv_file.status = "empty"
       THEN /\ err' = Raise("load_data", "ValueError", "The CSV file is empty.", <<>>)
            /\ pc' = "failed"
            /\ df' = df
       ELSE IF csv_file.status = "unreadable"
       THEN /\ err' = Raise("load_data", "ValueError",
                            "An error occurred while reading the CSV file: ", <<>>)
            /\ pc' = "failed"
            /\ df' = df
       ELSE IF TimeCol \notin csv_file.columns
       THEN /\ err' = Raise("load_data", "ValueError",
                            "The CSV file must contain a 'Time(s)' column.", <<>>)
            /\ pc' = "failed"
            /\ df' = ReadCsv(csv_file)
       ELSE IF MissingCols(columns_to_display, csv_file.columns) # <<>>
       THEN /\ err' = Raise("load_data", "ValueError",
                            "The following columns are missing in the CSV file: ",
                            MissingCols(columns_to_display, csv_file.columns))
            /\ pc' = "failed"
            /\ df' = ReadCsv(csv_file)
       ELSE /\ df' = DropNA(CoerceColumns(ReadCsv(csv_file), RequiredCols),
                            RequiredCols)
            /\ pc' = "assign_random_colors"
            /\ err' = err
    /\ UNCHANGED <<config, color_map, max_label_length, axes, uses_symlog,
                   rows, value_texts, box_ab, vertical_line, redraw>>

-----------------------------------------------------------------------------
(* assign_random_colors                                                    *)

\* the colours random.choice can produce, cut down to two
Colors == {"#1F77B4", "#FF7F0E"}

AssignRandomColors ==
    /\ pc = "assign_random_colors"
    /\ \E f \in [Range(columns_to_display) -> Colors] : color_map' = f
    /\ pc' = "compute_max_label_length"
    /\ UNCHANGED <<config, err, df, max_label_length, axes, uses_symlog,
                   rows, value_texts, box_ab, vertical_line, redraw>>

-----------------------------------------------------------------------------
(* compute_max_label_length                                                *)

\* the index of the first character ch of s at or after position i, 0 if none
RECURSIVE Find(_, _, _)
Find(s, ch, i) ==
    IF i > Len(s) THEN 0
    ELSE IF s[i] = ch THEN i
    ELSE Find(s, ch, i + 1)

\* re.sub(r'\(.*?\)', '', label): leftmost, shortest matches, left to right
RECURSIVE ReSubParens(_)
ReSubParens(s) ==
    LET open == Find(s, "(", 1)
        close == IF open = 0 THEN 0 ELSE Find(s, ")", open + 1)
    IN IF open = 0 \/ close = 0 THEN s
       ELSE SubSeq(s, 1, open - 1) \o ReSubParens(SubSeq(s, close + 1, Len(s)))

RECURSIVE LStrip(_)
LStrip(s) == IF s # <<>> /\ Head(s) = " " THEN LStrip(Tail(s)) ELSE s

RECURSIVE RStrip(_)
RStrip(s) ==
    IF s # <<>> /\ s[Len(s)] = " " THEN RStrip(SubSeq(s, 1, Len(s) - 1)) ELSE s

\* str.strip()
Strip(s) == RStrip(LStrip(s))

\* str.ljust(width)
Ljust(s, width) ==
    IF Len(s) >= width THEN s ELSE s \o [i \in 1..(width - Len(s)) |-> " "]

\* re.sub(...).strip() followed by f"{label} = "
CleanLabel(label) == Strip(ReSubParens(label)) \o <<" ", "=", " ">>

SetMax(S) == CHOOSE x \in S : \A y \in S : y <= x
SetMin(S) == CHOOSE x \in S : \A y \in S : x <= y

\* max(len(label) for label in cleaned_labels)
MaxLabelLength(cols) == SetMax({Len(CleanLabel(cols[i])) : i \in DOMAIN cols})

ComputeMaxLabelLength ==
    /\ pc = "compute_max_label_length"
    /\ IF columns_to_display = <<>>
       THEN /\ err' = Raise("compute_max_label_length", "ValueError",
                            "max() arg is an empty sequence", <<>>)
            /\ pc' = "failed"
            /\ max_label_length' = max_label_length
       ELSE /\ max_label_length' = MaxLabelLength(columns_to_display)
            /\ pc' = "setup_plot"
            /\ err' = err
    /\ UNCHANGED <<config, df, color_map, axes, uses_symlog, rows,
                   value_texts, box_ab, vertical_line, redraw>>

-----------------------------------------------------------------------------
(* setup_plot and plot_data                                                *)

SetupPlot ==
    /\ pc = "setup_plot"
    /\ axes' = [axes EXCEPT !.exists = TRUE]
    /\ pc' = "plot_data"
    /\ UNCHANGED <<config, err, df, color_map, max_label_length, uses_symlog,
                   rows, value_texts, box_ab, vertical_line, redraw>>

\* the values of self.df[cols], all rows and all columns of cols
ValuesOf(frame, cols) ==
    {frame.rows[i].cells[c].v : i \in DOMAIN frame.rows, c \in cols}

\* self.df[self.columns_to_display].lt(0).any().any()
AnyNegative(frame, cols) == \E x \in ValuesOf(frame, cols) : x < 0

LinThresh == 10

\* a scale chosen from every column of the frame, displayed or not
YScale_AllColumns(frame, cols, log) ==
    IF log /\ AnyNegative(frame, frame.columns) THEN "symlog"
    ELSE IF log THEN "log"
    ELSE "linear"

\* the scale plot_data passes to set_yscale
YScale(frame, cols, log) ==
    IF log /\ AnyNegative(frame, cols) THEN "symlog"
    ELSE IF log THEN "log"
    ELSE "linear"

\* the arguments of set_ylim, in tenths
YLim(frame, cols, symlog) ==
    LET y_min == SetMin(ValuesOf(frame, cols))
        y_max == SetMax(ValuesOf(frame, cols))
    IN IF symlog
       THEN <<IF y_min < 0 THEN y_min * 11 ELSE y_min * 9, y_max * 11>>
       ELSE <<y_min * 9, y_max * 11>>

\* the arguments of set_xlim
XLim(frame) ==
    LET ts == {frame.rows[i].cells[TimeCol].v : i \in DOMAIN frame.rows}
    IN <<SetMin(ts), SetMax(ts)>>

PlotData ==
    /\ pc = "plot_data"
    /\ LET cols == Range(columns_to_display)
           scale == YScale(df, cols, log_scale)
       IN /\ uses_symlog' = (scale = "symlog")
          /\ IF df.rows = <<>>
             \* min() and max() of no rows are NaN, which set_ylim rejects
             THEN /\ axes' = [axes EXCEPT !.yscale = scale]
                  /\ err' = Raise("plot_data", "ValueError",
                                  "Axis limits cannot be NaN or Inf", <<>>)
                  /\ pc' = "failed"
             ELSE /\ axes' = [axes EXCEPT
                                !.yscale = scale,
                                !.linthresh = IF scale = "symlog" THEN LinThresh
                                              ELSE @,
                                !.ylim = YLim(df, cols, scale = "symlog"),
                                !.xlim = XLim(df)]
                  /\ pc' = "create_annotation_box"
                  /\ err' = err
    /\ UNCHANGED <<config, df, color_map, max_label_length, rows, value_texts,
                   box_ab, vertical_line, redraw>>

-----------------------------------------------------------------------------
(* format_value, make_row, create_annotation_box, connect_events           *)

DigitChar(d) == <<"0", "1", "2", "3", "4", "5", "6", "7", "8", "9">>[d + 1]

\* the decimal digits of n >= 0
RECURSIVE Digits(_)
Digits(n) ==
    IF n < 10 THEN <<DigitChar(n)>> ELSE Digits(n \div 10) \o <<DigitChar(n % 10)>>

\* str.rjust(width), the alignment of a number in a format field
Rjust(s, width) ==
    IF Len(s) >= width THEN s ELSE [i \in 1..(width - Len(s)) |-> " "] \o s

FieldWidth == 10

\* format_value(value, width, decimals) for a whole number value:
\* f"{value:10.{decimals}f}", then ljust(width)
FormatValue(value, width, decimals) ==
    LET sign == IF value < 0 THEN <<"-">> ELSE <<>>
        whole == Digits(IF value < 0 THEN -value ELSE value)
        frac == IF decimals = 0 THEN <<>>
                ELSE <<".">> \o [i \in 1..decimals |-> "0"]
    IN Ljust(Rjust(sign \o whole \o frac, FieldWidth), width)

\* a row whose label is not padded
MakeRow_NoPad(label, color) ==
    [swatch |-> color, label_text |-> CleanLabel(label), value_text |-> <<>>]

\* make_row: the swatch colour, the padded label text and the empty value slot
MakeRow(label, color) ==
    [swatch |-> color,
     label_text |-> Ljust(CleanLabel(label), max_label_length),
     value_text |-> <<>>]

CreateAnnotationBox ==
    /\ pc = "create_annotation_box"
    /\ LET made == [i \in DOMAIN columns_to_display |->
                       MakeRow(columns_to_display[i],
                               color_map[columns_to_display[i]])]
       IN /\ rows' = [i \in DOMAIN made |->
                         [swatch |-> made[i].swatch,
                          label_text |-> made[i].label_text]]
          /\ value_texts' = [i \in DOMAIN made |-> made[i].value_text]
    \* an AnnotationBbox is visible from its creation
    /\ box_ab' = [exists |-> TRUE, visible |-> TRUE]
    /\ pc' = "connect_events"
    /\ UNCHANGED <<config, err, df, color_map, max_label_length, axes,
                   uses_symlog, vertical_line, redraw>>

ConnectEvents ==
    /\ pc = "connect_events"
    /\ vertical_line' = [exists |-> TRUE, visible |-> FALSE, xdata |-> <<0, 0>>]
    /\ pc' = "ready"
    /\ UNCHANGED <<config, err, df, color_map, max_label_length, axes,
                   uses_symlog, rows, value_texts, box_ab, redraw>>

-----------------------------------------------------------------------------
(* on_mouse_move                                                           *)

None == [some |-> FALSE, v |-> 0]
Some(x) == [some |-> TRUE, v |-> x]

\* the pointer-move events: outside the axes, inside without a data
\* coordinate, inside at time x
Events ==
    {[inaxes |-> FALSE, xdata |-> None], [inaxes |-> TRUE, xdata |-> None]}
    \cup {[inaxes |-> TRUE, xdata |-> Some(x)] : x \in -1 .. MaxTime + 1}

Abs(x) == IF x < 0 THEN -x ELSE x

\* (self.df["Time(s)"] - mouse_x).abs()
AbsDiffs(frame, mouse_x) ==
    [i \in DOMAIN frame.rows |-> Abs(frame.rows[i].cells[TimeCol].v - mouse_x)]

\* a scan that keeps the last minimum instead of the first
RECURSIVE ArgMinScan_LastMin(_, _, _)
ArgMinScan_LastMin(d, i, best) ==
    IF i > Len(d) THEN best
    ELSE ArgMinScan_LastMin(d, i + 1, IF d[i] <= d[best] THEN i ELSE best)

\* the position of the first minimum of d, scanning from position i
RECURSIVE ArgMinScan(_, _, _)
ArgMinScan(d, i, best) ==
    IF i > Len(d) THEN best
    ELSE ArgMinScan(d, i + 1, IF d[i] < d[best] THEN i ELSE best)

\* Series.idxmin(): the label of the first minimum
IdxMin(frame, d) == frame.rows[ArgMinScan(d, 2, 1)].label

\* self.df.loc[label]
Loc(frame, label) == CHOOSE r \in Range(frame.rows) : r.label = label

\* a hiding branch that forgets the marker
HideReadout_PanelOnly(st) ==
    [st EXCEPT !.box_ab.visible = FALSE, !.redraw = TRUE]

\* the two early returns of on_mouse_move: hide the panel and the marker
HideReadout(st) ==
    [st EXCEPT !.box_ab.visible = FALSE,
               !.vertical_line.visible = FALSE,
               !.redraw = TRUE]

\* a snap that flips the panel's visibility instead of setting it
SnapReadout_Toggle(st, mouse_x) ==
    LET row == Loc(df, IdxMin(df, AbsDiffs(df, mouse_x)))
        x_val == row.cells[TimeCol].v
    IN [st EXCEPT
          !.vertical_line.xdata = <<x_val, x_val>>,
          !.vertical_line.visible = TRUE,
          !.value_texts =
              [i \in DOMAIN st.value_texts |->
                  FormatValue(row.cells[columns_to_display[i]].v, 1, 2)],
          !.box_ab.visible = ~st.box_ab.visible,
          !.redraw = TRUE]

\* the rest of on_mouse_move: snap the marker and the value slots to the
\* sample nearest to mouse_x and show them
SnapReadout(st, mouse_x) ==
    LET idx_closest == IdxMin(df, AbsDiffs(df, mouse_x))
        row == Loc(df, idx_closest)
        x_val == row.cells[TimeCol].v
    IN [st EXCEPT
          !.vertical_line.xdata = <<x_val, x_val>>,
          !.vertical_line.visible = TRUE,
          !.value_texts =
              [i \in DOMAIN st.value_texts |->
                  FormatValue(row.cells[columns_to_display[i]].v, 1, 2)],
          !.box_ab.visible = TRUE,
          !.redraw = TRUE]

\* the readout after on_mouse_move(event) from the readout st
MouseMove(st, event) ==
    IF ~event.inaxes THEN HideReadout(st)
    ELSE IF ~event.xdata.some THEN HideReadout(st)
    ELSE IF df.rows = <<>>
    \* idxmin of an empty Series raises before anything is changed
    THEN st
    ELSE SnapReadout(st, event.xdata.v)

Readout ==
    [value_texts |-> value_texts, box_ab |-> box_ab,
     vertical_line |-> vertical_line, redraw |-> redraw]

OnMouseMove(event) ==
    /\ pc = "ready"
    /\ LET after == MouseMove(Readout, event)
       IN /\ value_texts' = after.value_texts
          /\ box_ab' = after.box_ab
          /\ vertical_line' = after.vertical_line
          /\ redraw' = after.redraw
    /\ UNCHANGED <<config, pc, err, df, color_map, max_label_length, axes,
                   uses_symlog, rows>>

PointerMove == \E event \in Events : OnMouseMove(event)

Next ==
    \/ LoadData
    \/ AssignRandomColors
    \/ ComputeMaxLabelLength
    \/ SetupPlot
    \/ PlotData
    \/ CreateAnnotationBox
    \/ ConnectEvents
    \/ PointerMove

-----------------------------------------------------------------------------
(* Initial states: the object as __init__ finds it, for the inputs of each *)
(* specification.                                                          *)

Constructed(file, cols, log) ==
    /\ csv_file = file
    /\ columns_to_display = cols
    /\ log_scale = log
    /\ pc = "load_data"
    /\ err = NoErr
    /\ df = [columns |-> {}, rows |-> <<>>]
    /\ color_map = <<>>
    /\ max_label_length = 0
    /\ axes = NoAxes
    /\ uses_symlog = FALSE
    /\ rows = <<>>
    /\ value_texts = <<>>
    /\ box_ab = [exists |-> FALSE, visible |-> FALSE]
    /\ vertical_line = [exists |-> FALSE, visible |-> FALSE, xdata |-> <<>>]
    /\ redraw = FALSE

Table(columns, rs) == [status |-> "ok", columns |-> columns, rows |-> rs]

NoTable(status) == [status |-> status, columns |-> {}, rows |-> <<>>]

\* the column lists: one series, two series in either order
ColumnLists == {<<ColA>>, <<ColA, ColB>>, <<ColB, ColA>>}

\* tables with missing, non-numeric and numeric cells, with and without the
\* time column and the series columns
LoadCells(c) ==
    IF c = TimeCol THEN {Num(0), TextCell}
    ELSE IF c = ColA THEN {Num(1), Blank}
    ELSE IF c = ColB THEN {Num(-1), TextCell}
    ELSE {Num(1), Blank}

LoadRows(columns) ==
    {r \in [columns -> {Num(0), Num(1), Num(-1), Blank, TextCell}] :
        \A c \in columns : r[c] \in LoadCells(c)}

LoadColumnSets ==
    {{TimeCol, ColA, ColB, ColX}, {TimeCol, ColA}, {TimeCol, ColB, ColX},
     {TimeCol, ColX}, {ColA, ColB}}

InitLoad ==
    \E cols \in ColumnLists, log \in BOOLEAN :
        \/ \E status \in {"notfound", "empty", "unreadable"} :
               Constructed(NoTable(status), cols, log)
        \/ \E columns \in LoadColumnSets :
           \E rs \in SeqsUpTo(LoadRows(columns), MaxRows) :
               Constructed(Table(columns, rs), cols, log)

SpecLoad == InitLoad /\ [][Next]_vars

\* numeric tables whose first series takes the values -MaxVal, 0 and MaxVal,
\* with the time column and the column that is not displayed all of one sign
ScaleRows(other) ==
    {[c \in {TimeCol, ColA, ColB, ColX} |->
         IF c = ColA THEN Num(a) ELSE IF c = ColB THEN Num(b) ELSE Num(other)] :
     a \in {-MaxVal, 0, MaxVal}, b \in {-1, 1}}

InitScale ==
    \E cols \in {<<ColA>>, <<ColA, ColB>>}, log \in BOOLEAN, other \in {-1, 1} :
    \E rs \in SeqsUpTo(ScaleRows(other), MaxScaleRows) :
        Constructed(Table({TimeCol, ColA, ColB, ColX}, rs), cols, log)

SpecScale == InitScale /\ [][Next]_vars

\* series names over a small alphabet, alone or beside a fixed name
LabelChars == {"a", " ", "(", ")"}

LabelNames == SeqsUpTo(LabelChars, MaxLabelLen) \ {<<>>}

LabelLists ==
    {<<>>} \cup {<<n>> : n \in LabelNames}
    \cup {<<n, m>> : n \in LabelNames, m \in {ShortCol, ColA}}

InitLabel ==
    \E cols \in LabelLists :
        Constructed(Table(Range(cols) \cup {TimeCol},
                          <<[c \in Range(cols) \cup {TimeCol} |-> Num(1)]>>),
                    cols, FALSE)

SpecLabel == InitLabel /\ [][Next]_vars

\* numeric tables whose sample times range over 0 .. MaxTime, unsorted and
\* with repeats; the values of a row are told apart by its position
PointerRow(t, i) ==
    [c \in {TimeCol, ColA, ColB} |->
        IF c = TimeCol THEN Num(t)
        ELSE IF c = ColA THEN Num(19 - 12 * i)
        ELSE Num(30 + i)]

InitPointer ==
    \E cols \in {<<ColA>>, <<ColA, ColB>>} :
    \E times \in SeqsUpTo(0 .. MaxTime, MaxSamples) :
        Constructed(Table({TimeCol, ColA, ColB},
                          [i \in DOMAIN times |-> PointerRow(times[i], i)]),
                    cols, FALSE)

SpecPointer == InitPointer /\ [][Next]_vars

Init == InitLoad \/ InitScale \/ InitLabel \/ InitPointer

Spec == Init /\ [][Next]_vars

-----------------------------------------------------------------------------
(* Properties.                                                             *)

Time(i) == df.rows[i].cells[TimeCol].v

ValidEvent(e) == e.inaxes /\ e.xdata.some

\* C1: a pointer move inside the axes at time t snaps to the sample of the
\* lowest position among those nearest to t: the marker is set to that
\* sample's time and every value slot to the formatted value of its series in
\* that sample.
C1_NearestSample ==
    [][\A e \in Events :
         (OnMouseMove(e) /\ ValidEvent(e)) =>
            \E i \in DOMAIN df.rows :
               /\ \A j \in DOMAIN df.rows :
                     Abs(Time(i) - e.xdata.v) <= Abs(Time(j) - e.xdata.v)
               /\ \A j \in 1 .. i - 1 :
                     Abs(Time(j) - e.xdata.v) > Abs(Time(i) - e.xdata.v)
               /\ vertical_line'.xdata = <<Time(i), Time(i)>>
               /\ Len(value_texts') = Len(columns_to_display)
               /\ \A k \in DOMAIN columns_to_display :
                     value_texts'[k] =
                        FormatValue(df.rows[i].cells[columns_to_display[k]].v, 1, 2)
      ]_vars

\* C1 witness: the second and third samples share the time nearest to the
\* pointer and differ in value; the marker is at that time and the value slots
\* show the second sample.
C1_Witness ==
    /\ pc = "ready"
    /\ box_ab.visible
    /\ Len(df.rows) = 3
    /\ Time(1) = 0 /\ Time(2) = MaxTime /\ Time(3) = MaxTime
    /\ df.rows[2].cells[ColA] # df.rows[3].cells[ColA]
    /\ vertical_line.xdata = <<MaxTime, MaxTime>>
    /\ columns_to_display = <<ColA, ColB>>
    /\ value_texts[1] = FormatValue(df.rows[2].cells[ColA].v, 1, 2)
    /\ value_texts[1] = <<" ", " ", " ", " ", " ", "-", "5", ".", "0", "0">>
    /\ value_texts[2] = FormatValue(df.rows[2].cells[ColB].v, 1, 2)

\* C2: after a pointer move the marker and the panel are both hidden when the
\* event was outside the axes or had no time coordinate, and both visible
\* when it carried a time coordinate inside the axes, whatever they were
\* before.
C2_LastEventDecides ==
    [][\A e \in Events :
         OnMouseMove(e) =>
            /\ box_ab'.visible = ValidEvent(e)
            /\ vertical_line'.visible = ValidEvent(e)
      ]_vars

\* C2 witness: the readout is hidden after it has been shown (the value slots
\* hold a displayed value).
C2_Witness ==
    /\ pc = "ready"
    /\ ~box_ab.visible /\ ~vertical_line.visible
    /\ \E k \in DOMAIN value_texts : value_texts[k] # <<>>

\* C3: handling the same pointer event a second time changes nothing: value
\* slots, panel visibility, marker visibility and marker position are those
\* after the first handling.
C3_Idempotent ==
    pc = "ready" =>
        \A e \in Events :
            LET first == MouseMove(Readout, e)
                second == MouseMove(first, e)
            IN /\ second.value_texts = first.value_texts
               /\ second.box_ab = first.box_ab
               /\ second.vertical_line = first.vertical_line
               /\ second.redraw = first.redraw

\* C3 witness: the readout shows a sample away from the first one, so that a
\* second handling of an event has a shown state to start from.
C3_Witness ==
    /\ pc = "ready"
    /\ box_ab.visible /\ vertical_line.visible
    /\ Len(df.rows) >= 2
    /\ vertical_line.xdata # <<Time(1), Time(1)>>
    /\ MouseMove(Readout, [inaxes |-> TRUE, xdata |-> Some(vertical_line.xdata[1])])
          = Readout

(* Loading.                                                                *)

\* load_data returned without raising
LoadSucceeded == pc # "load_data" /\ err.at # "load_data"

\* the table was read and holds the time column
TableRead == csv_file.status = "ok" /\ TimeCol \in csv_file.columns

\* row i of the table has a number in the time column and in every
\* configured series
Complete(i) == \A c \in RequiredCols : csv_file.rows[i][c].k = "num"

Pos(x, s) == CHOOSE i \in DOMAIN s : s[i] = x

\* C4: the loaded dataset is exactly the rows of the table, in their order,
\* whose time and configured series values are all numbers; the cells of a
\* kept row are those of the table, and none is missing in a required column.
C4_CleanedRows ==
    LoadSucceeded =>
        /\ {df.rows[j].label + 1 : j \in DOMAIN df.rows}
              = {i \in DOMAIN csv_file.rows : Complete(i)}
        /\ \A j, k \in DOMAIN df.rows :
              j < k => df.rows[j].label < df.rows[k].label
        /\ \A j \in DOMAIN df.rows :
              /\ df.rows[j].cells = csv_file.rows[df.rows[j].label + 1]
              /\ \A c \in RequiredCols : ~IsNA(df.rows[j].cells[c])

\* C4 witness: of two rows the first is dropped for a missing series value
\* although its time is a number, and the second is kept although its cell in
\* the column that is not configured is missing.
C4_Witness ==
    /\ LoadSucceeded
    /\ columns_to_display = <<ColA>>
    /\ csv_file.columns = {TimeCol, ColA, ColB, ColX}
    /\ Len(csv_file.rows) = 2
    /\ csv_file.rows[1][TimeCol] = Num(0) /\ csv_file.rows[1][ColA] = Blank
    /\ csv_file.rows[2][ColX] = Blank /\ csv_file.rows[2][ColB] = TextCell
    /\ Len(df.rows) = 1
    /\ df.rows[1].label = 1

\* C5: when the table has every required column and rows, none of them
\* complete, so that no sample remains after dropping, load_data fails: no
\* load returns an empty dataset and no later step runs on one.
C5_EmptyAfterCleaning ==
    (pc # "load_data" /\ TableRead /\ csv_file.rows # <<>>
       /\ Range(columns_to_display) \subseteq csv_file.columns
       /\ \A i \in DOMAIN csv_file.rows : ~Complete(i)) =>
        /\ pc = "failed"
        /\ err.at = "load_data"
        /\ color_map = <<>> /\ ~axes.exists

\* C6: with the time column present and configured series absent from the
\* table, load_data fails naming exactly the absent series, once each and in
\* configured order, with the frame as read (nothing coerced or dropped) and
\* no later step run.
C6_MissingSeries ==
    (pc # "load_data" /\ TableRead
       /\ \E i \in DOMAIN columns_to_display :
             columns_to_display[i] \notin csv_file.columns) =>
        /\ pc = "failed"
        /\ err.at = "load_data"
        /\ err.type = "ValueError"
        /\ err.msg = "The following columns are missing in the CSV file: "
        /\ Range(err.names) = Range(columns_to_display) \ csv_file.columns
        /\ \A i, j \in DOMAIN err.names :
              i < j => Pos(err.names[i], columns_to_display)
                          < Pos(err.names[j], columns_to_display)
        /\ df = ReadCsv(csv_file)
        /\ color_map = <<>> /\ max_label_length = 0 /\ axes = NoAxes
        /\ rows = <<>> /\ ~box_ab.exists /\ ~vertical_line.exists

\* C6 witness: both configured series are absent and are named in configured
\* order, and a cell of the frame is still the text that was read.
C6_Witness ==
    /\ pc = "failed"
    /\ columns_to_display = <<ColB, ColA>>
    /\ csv_file.columns = {TimeCol, ColX}
    /\ err.names = <<ColB, ColA>>
    /\ Len(df.rows) = 2
    /\ df.rows[1].cells[TimeCol] = TextCell

-----------------------------------------------------------------------------
(* Scale.                                                                  *)

\* plot_data has chosen the scale
ScaleChosen == axes.yscale # ""

\* some value of a displayed series in the cleaned dataset is negative
DisplayedNegative ==
    \E i \in DOMAIN df.rows, k \in DOMAIN columns_to_display :
        df.rows[i].cells[columns_to_display[k]].v < 0

\* C7: the scale is symlog with linear threshold 10 exactly when log scale is
\* requested and a displayed value is negative, log exactly when log scale is
\* requested and none is, linear exactly when log scale is not requested.
C7_ScaleRule ==
    ScaleChosen =>
        /\ axes.yscale \in {"symlog", "log", "linear"}
        /\ axes.yscale = "symlog" <=> (log_scale /\ DisplayedNegative)
        /\ axes.yscale = "log" <=> (log_scale /\ ~DisplayedNegative)
        /\ axes.yscale = "linear" <=> ~log_scale
        /\ uses_symlog = (axes.yscale = "symlog")
        /\ (axes.yscale = "symlog" /\ pc # "failed") => axes.linthresh = 10

\* C7 witness: log scale is requested, the times and the values of the two
\* columns that are not displayed are negative, and the scale is log.
C7_Witness ==
    /\ ScaleChosen
    /\ axes.yscale = "log"
    /\ columns_to_display = <<ColA>>
    /\ Len(df.rows) = 2
    /\ \A i \in DOMAIN df.rows :
          /\ Time(i) < 0
          /\ df.rows[i].cells[ColB].v < 0
          /\ df.rows[i].cells[ColX].v < 0

GlobalMin == SetMin(ValuesOf(df, Range(columns_to_display)))
GlobalMax == SetMax(ValuesOf(df, Range(columns_to_display)))

\* C10: the limits passed to set_ylim enclose the displayed data:
\* ymin <= global_min and global_max <= ymax (limits are in tenths).
C10_LimitsEncloseData ==
    axes.ylim # <<>> =>
        /\ axes.ylim[1] <= 10 * GlobalMin
        /\ 10 * GlobalMax <= axes.ylim[2]

-----------------------------------------------------------------------------
(* Panel.                                                                  *)

\* make_row has built the rows of the panel
PanelBuilt == pc \in {"connect_events", "ready"}

\* no opening parenthesis of s has a closing one after it
NoParenthetical(s) ==
    \A i, j \in DOMAIN s : ~(i < j /\ s[i] = "(" /\ s[j] = ")")

\* C8: every row's label text has the one width max_label_length, which is
\* the greatest length over the configured series of the stripped label
\* followed by " = "; each label text is that label padded with spaces, the
\* stripped label holds no parenthetical and no surrounding space, and the
\* width stays what it is after pointer events.
C8_OneLabelWidth ==
    PanelBuilt =>
        /\ Len(rows) = Len(columns_to_display)
        /\ \A i \in DOMAIN rows : Len(rows[i].label_text) = max_label_length
        /\ \E i \in DOMAIN columns_to_display :
              Len(CleanLabel(columns_to_display[i])) = max_label_length
        /\ \A i \in DOMAIN rows :
              LET label == CleanLabel(columns_to_display[i])
                  text == rows[i].label_text
                  stripped == SubSeq(label, 1, Len(label) - 3)
              IN /\ Len(label) <= max_label_length
                 /\ SubSeq(text, 1, Len(label)) = label
                 /\ \A k \in Len(label) + 1 .. Len(text) : text[k] = " "
                 /\ SubSeq(label, Len(label) - 2, Len(label)) = <<" ", "=", " ">>
                 /\ NoParenthetical(stripped)
                 /\ stripped # <<>> => (Head(stripped) # " "
                                         /\ stripped[Len(stripped)] # " ")

\* C8 witness: after a pointer event, a name with a parenthetical and a space
\* before it gives a label shorter than the other row's, padded to its width.
C8_Witness ==
    /\ pc = "ready"
    /\ redraw
    /\ columns_to_display = <<<<"a", " ", "(">>, ColA>>
    /\ max_label_length = 8
    /\ rows[1].label_text = <<"a", " ", "(", " ", "=", " ", " ", " ">>
    /\ rows[2].label_text = <<"P", "e", "d", "a", "l", " ", "=", " ">>

-----------------------------------------------------------------------------
(* Readout.                                                                *)

\* C9: from the end of setup on, while the panel is visible no value slot is
\* empty.
C9_EmptyOnlyWhileHidden ==
    (pc = "ready" /\ box_ab.visible) =>
        \A k \in DOMAIN value_texts : value_texts[k] # <<>>

=============================================================================
